---- MODULE Spec2Model ----
(***************************************************************************)
(* Model of internal/pokecache (cache.go): a mutex-protected map from key  *)
(* to (createdAt, val) with a background reaper goroutine driven by a      *)
(* time.Ticker whose period is the cache's interval.                       *)
(*                                                                         *)
(* Time is discrete.  One unit of the clock is much longer than a          *)
(* scheduling delay: the reaper goroutine handles a tick (and starts up)   *)
(* before the clock moves on, so the clock does not advance while the      *)
(* reaper has work pending.  Caller goroutines are scheduled freely and    *)
(* interleave at the granularity of Lock / critical section / Unlock.      *)
(***************************************************************************)
EXTENDS Integers, FiniteSets, TLC

\* ---------------------------------------------------------------- bounds
NumCallers == 2
NumKeys == 2
MaxPayload == 2
MaxInterval == 2
MaxTime == 5

Callers == 1..NumCallers
Keys == 1..NumKeys
Payloads == 1..MaxPayload
\* durations handed to NewCache; 0 stands for the non-positive durations
Intervals == 0..MaxInterval

\* the nil byte slice of Get's miss path
Nil == 0

VARIABLES
    entries,      \* Cache.entries: set of [key, createdAt, val], the map
    interval,     \* Cache.interval
    mu,           \* Cache.mu: TRUE when locked
    pc,           \* position of each caller goroutine
    key,          \* key argument of a caller's current Add/Get
    val,          \* val argument of a caller's current Add
    ret,          \* ([]byte, bool) of a caller's last Get
    rpc,          \* position of the reapLoop goroutine
    now,          \* time.Now()
    nextTick,     \* time at which the ticker delivers its next tick
    tickPending,  \* ticker.C holds an unreceived tick
    panicked,     \* the process died of an unrecovered panic
    hist,         \* history: last completed Add per key (time, payload,
                  \* whether it replaced a different payload, whether
                  \* it replaced an entry older than interval)
    abs,          \* history: payload per key in lock-acquisition order
    expect,       \* history: abs[key] when a caller's Get took the lock
    f,            \* the command loop's current fetch (main package)
    heap,         \* contents of the byte slices' backing arrays
    al            \* a caller that keeps the slices it passed and received

\* state of the callers of the cache outside package pokecache
xvars == <<f, heap, al>>

vars == <<entries, interval, mu, pc, key, val, ret, rpc, now, nextTick,
          tickPending, panicked, hist, abs, expect, f, heap, al>>

NoRet == [val |-> Nil, ok |-> FALSE]

\* the three fetch functions of the command loop
FetchFns == {"fetchLocations", "fetchLocationDetails", "catchPokemon"}

\* no fetch in progress
NoFetch == [pc |-> "idle", fn |-> "fetchLocations", url |-> 1, data |-> Nil,
            err |-> "none", hit |-> FALSE, fetched |-> FALSE,
            added |-> FALSE]

\* the aliasing caller before its first Get
NoAlias == [snap |-> [k \in Keys |-> Nil], key |-> 1, ret |-> NoRet,
            got |-> Nil, want |-> Nil]

\* ------------------------------------------------------------ map helpers
\* mutant: the constructor leaves an entry in the map
EmptyMap_Seeded == {[key |-> 1, createdAt |-> 0, val |-> 1]}

\* make(map[string]cacheEntry)
EmptyMap == {}

\* entry, ok := m[k]
Has(m, k) == \E e \in m : e.key = k

Lookup(m, k) == CHOOSE e \in m : e.key = k

\* mutant: the assignment appends instead of replacing the key's entry
MapAssign_Append(m, k, t, v) ==
    m \cup {[key |-> k, createdAt |-> t, val |-> v]}

\* mutant: the assignment replaces the whole map
MapAssign_Clobber(m, k, t, v) ==
    {[key |-> k, createdAt |-> t, val |-> v]}

\* mutant: an overwrite keeps the old entry's createdAt
MapAssign_KeepTime(m, k, t, v) ==
    {e \in m : e.key # k}
    \cup {[key |-> k, val |-> v,
           createdAt |-> IF Has(m, k) THEN Lookup(m, k).createdAt ELSE t]}

\* m[k] = cacheEntry{createdAt: t, val: v}
MapAssign(m, k, t, v) ==
    {e \in m : e.key # k} \cup {[key |-> k, createdAt |-> t, val |-> v]}

\* mutant: >= in place of >
Expired_Eager(e, t, d) == t - e.createdAt >= d

\* mutant: an entry expires only after twice the interval
Expired_Lazy(e, t, d) == t - e.createdAt > 2 * d

\* now.Sub(entry.createdAt) > c.interval
Expired(e, t, d) == t - e.createdAt > d

\* mutant: the loop deletes nothing
ReapMap_KeepAll(m, t, d) == m

\* the loop of reap: delete every expired entry
ReapMap(m, t, d) == {e \in m : ~Expired(e, t, d)}

\* mutant: Get checks the entry's age (lazy expiry)
GetResult_AgeCheck(m, k) ==
    IF Has(m, k) /\ ~Expired(Lookup(m, k), now, interval)
    THEN [val |-> Lookup(m, k).val, ok |-> TRUE]
    ELSE [val |-> Nil, ok |-> FALSE]

\* body of Get: (entry.val, true) or (nil, false)
GetResult(m, k) ==
    IF Has(m, k) THEN [val |-> Lookup(m, k).val, ok |-> TRUE]
    ELSE [val |-> Nil, ok |-> FALSE]

\* mutant: a hit refreshes the entry's createdAt
GetEntries_Touch(m, k, t) ==
    IF Has(m, k)
    THEN {e \in m : e.key # k}
         \cup {[key |-> k, createdAt |-> t, val |-> Lookup(m, k).val]}
    ELSE m

\* the map after Get's body: an index read, nothing is assigned
GetEntries(m, k, t) == m

\* mutant: Lock does not wait
MuCanLock_NoWait(m) == TRUE

\* sync.Mutex.Lock proceeds only on an unlocked mutex
MuCanLock(m) == m = FALSE

\* mutant: the deferred Unlock is missing
MuUnlock_Leak(m) == m

\* sync.Mutex.Unlock leaves the mutex unlocked
MuUnlock(m) == FALSE

\* time.NewTicker panics on a non-positive duration
TickerPanics(d) == d <= 0

\* ------------------------------------------------------------------ Init
\* state right after NewCache(interval) returned: empty map, interval
\* stored, reapLoop goroutine spawned but not yet run
Init ==
    /\ interval \in Intervals
    /\ entries = EmptyMap
    /\ mu = FALSE
    /\ pc = [c \in Callers |-> "idle"]
    /\ key = [c \in Callers |-> 1]
    /\ val = [c \in Callers |-> Nil]
    /\ ret = [c \in Callers |-> NoRet]
    /\ rpc = "start"
    /\ now = 0
    /\ nextTick = 0
    /\ tickPending = FALSE
    /\ panicked = FALSE
    /\ hist = [k \in Keys |-> [put |-> FALSE, time |-> 0, val |-> Nil,
                               over |-> FALSE, stale |-> FALSE]]
    /\ abs = [k \in Keys |-> Nil]
    /\ expect = [c \in Callers |-> Nil]
    /\ f = NoFetch
    /\ heap = [b \in Payloads |-> b]
    /\ al = NoAlias

\* --------------------------------------------------------------- callers
CallAdd(c, k, v) ==
    /\ ~panicked
    /\ pc[c] = "idle"
    /\ pc' = [pc EXCEPT ![c] = "add_lock"]
    /\ key' = [key EXCEPT ![c] = k]
    /\ val' = [val EXCEPT ![c] = v]
    /\ ret' = [ret EXCEPT ![c] = NoRet]
    /\ UNCHANGED <<entries, interval, mu, rpc, now, nextTick, tickPending,
                   panicked, hist, abs, expect>>
    /\ UNCHANGED xvars

\* c.mu.Lock() of Add
AddLock(c) ==
    /\ ~panicked
    /\ pc[c] = "add_lock"
    /\ MuCanLock(mu)
    /\ mu' = TRUE
    /\ pc' = [pc EXCEPT ![c] = "add_body"]
    /\ abs' = [abs EXCEPT ![key[c]] = val[c]]
    /\ UNCHANGED <<entries, interval, key, val, ret, rpc, now, nextTick,
                   tickPending, panicked, hist, expect>>
    /\ UNCHANGED xvars

\* c.entries[key] = cacheEntry{createdAt: time.Now(), val: val}
AddBody(c) ==
    /\ ~panicked
    /\ pc[c] = "add_body"
    /\ entries' = MapAssign(entries, key[c], now, val[c])
    /\ hist' = [hist EXCEPT ![key[c]] =
                   [put |-> TRUE, time |-> now, val |-> val[c],
                    over |-> Has(entries, key[c])
                             /\ Lookup(entries, key[c]).val # val[c],
                    stale |-> Has(entries, key[c])
                              /\ Expired(Lookup(entries, key[c]), now,
                                         interval)]]
    /\ pc' = [pc EXCEPT ![c] = "add_unlock"]
    /\ UNCHANGED <<interval, mu, key, val, ret, rpc, now, nextTick,
                   tickPending, panicked, abs, expect>>
    /\ UNCHANGED xvars

\* deferred c.mu.Unlock() of Add, and return; the frame's locals die
AddUnlock(c) ==
    /\ ~panicked
    /\ pc[c] = "add_unlock"
    /\ mu' = MuUnlock(mu)
    /\ pc' = [pc EXCEPT ![c] = "idle"]
    /\ key' = [key EXCEPT ![c] = 1]
    /\ val' = [val EXCEPT ![c] = Nil]
    /\ ret' = [ret EXCEPT ![c] = NoRet]
    /\ expect' = [expect EXCEPT ![c] = Nil]
    /\ UNCHANGED <<entries, interval, rpc, now, nextTick, tickPending,
                   panicked, hist, abs>>
    /\ UNCHANGED xvars

CallGet(c, k) ==
    /\ ~panicked
    /\ pc[c] = "idle"
    /\ pc' = [pc EXCEPT ![c] = "get_lock"]
    /\ key' = [key EXCEPT ![c] = k]
    /\ val' = [val EXCEPT ![c] = Nil]
    /\ ret' = [ret EXCEPT ![c] = NoRet]
    /\ UNCHANGED <<entries, interval, mu, rpc, now, nextTick, tickPending,
                   panicked, hist, abs, expect>>
    /\ UNCHANGED xvars

\* c.mu.Lock() of Get
GetLock(c) ==
    /\ ~panicked
    /\ pc[c] = "get_lock"
    /\ MuCanLock(mu)
    /\ mu' = TRUE
    /\ pc' = [pc EXCEPT ![c] = "get_body"]
    /\ expect' = [expect EXCEPT ![c] = abs[key[c]]]
    /\ UNCHANGED <<entries, interval, key, val, ret, rpc, now, nextTick,
                   tickPending, panicked, hist, abs>>
    /\ UNCHANGED xvars

\* entry, ok := c.entries[key]; the return values are evaluated here
GetBody(c) ==
    /\ ~panicked
    /\ pc[c] = "get_body"
    /\ ret' = [ret EXCEPT ![c] = GetResult(entries, key[c])]
    /\ entries' = GetEntries(entries, key[c], now)
    /\ pc' = [pc EXCEPT ![c] = "get_unlock"]
    /\ UNCHANGED <<interval, mu, key, val, rpc, now, nextTick,
                   tickPending, panicked, hist, abs, expect>>
    /\ UNCHANGED xvars

\* deferred c.mu.Unlock() of Get, and return: the caller consumes the
\* result and the frame's locals die
GetUnlock(c) ==
    /\ ~panicked
    /\ pc[c] = "get_unlock"
    /\ mu' = MuUnlock(mu)
    /\ pc' = [pc EXCEPT ![c] = "idle"]
    /\ key' = [key EXCEPT ![c] = 1]
    /\ val' = [val EXCEPT ![c] = Nil]
    /\ ret' = [ret EXCEPT ![c] = NoRet]
    /\ expect' = [expect EXCEPT ![c] = Nil]
    /\ UNCHANGED <<entries, interval, rpc, now, nextTick, tickPending,
                   panicked, hist, abs>>
    /\ UNCHANGED xvars

\* ---------------------------------------------------------------- reaper
\* reapLoop: ticker := time.NewTicker(c.interval)
NewTicker ==
    /\ ~panicked
    /\ rpc = "start"
    /\ IF TickerPanics(interval)
       THEN /\ panicked' = TRUE
            /\ UNCHANGED <<rpc, nextTick>>
       ELSE /\ rpc' = "wait"
            /\ nextTick' = now + interval
            /\ UNCHANGED panicked
    /\ UNCHANGED <<entries, interval, mu, pc, key, val, ret, now,
                   tickPending, hist, abs, expect>>
    /\ UNCHANGED xvars

\* for range ticker.C: receive a tick and call c.reap()
TickRecv ==
    /\ ~panicked
    /\ rpc = "wait"
    /\ tickPending
    /\ tickPending' = FALSE
    /\ rpc' = "reap_lock"
    /\ UNCHANGED <<entries, interval, mu, pc, key, val, ret, now, nextTick,
                   panicked, hist, abs, expect>>
    /\ UNCHANGED xvars

\* c.mu.Lock() of reap
ReapLock ==
    /\ ~panicked
    /\ rpc = "reap_lock"
    /\ MuCanLock(mu)
    /\ mu' = TRUE
    /\ rpc' = "reap_body"
    /\ abs' = [k \in Keys |-> IF Has(entries, k)
                                 /\ Expired(Lookup(entries, k), now, interval)
                              THEN Nil ELSE abs[k]]
    /\ UNCHANGED <<entries, interval, pc, key, val, ret, now, nextTick,
                   tickPending, panicked, hist, expect>>
    /\ UNCHANGED xvars

\* now := time.Now(); delete every expired entry
ReapBody ==
    /\ ~panicked
    /\ rpc = "reap_body"
    /\ entries' = ReapMap(entries, now, interval)
    /\ rpc' = "reap_unlock"
    /\ UNCHANGED <<interval, mu, pc, key, val, ret, now, nextTick,
                   tickPending, panicked, hist, abs, expect>>
    /\ UNCHANGED xvars

\* deferred c.mu.Unlock() of reap, back to the range loop
ReapUnlock ==
    /\ ~panicked
    /\ rpc = "reap_unlock"
    /\ mu' = MuUnlock(mu)
    /\ rpc' = "wait"
    /\ UNCHANGED <<entries, interval, pc, key, val, ret, now, nextTick,
                   tickPending, panicked, hist, abs, expect>>
    /\ UNCHANGED xvars

\* ----------------------------------------------------------------- clock
\* one unit of time passes; the ticker delivers a tick every interval
ClockTick ==
    /\ ~panicked
    /\ now < MaxTime
    /\ rpc = "wait"
    /\ ~tickPending
    /\ now' = now + 1
    /\ IF now + 1 = nextTick
       THEN /\ tickPending' = TRUE
            /\ nextTick' = nextTick + interval
       ELSE UNCHANGED <<tickPending, nextTick>>
    /\ UNCHANGED <<entries, interval, mu, pc, key, val, ret, rpc, panicked,
                   hist, abs, expect>>
    /\ UNCHANGED xvars

Next ==
    \/ \E c \in Callers, k \in Keys, v \in Payloads : CallAdd(c, k, v)
    \/ \E c \in Callers : AddLock(c)
    \/ \E c \in Callers : AddBody(c)
    \/ \E c \in Callers : AddUnlock(c)
    \/ \E c \in Callers, k \in Keys : CallGet(c, k)
    \/ \E c \in Callers : GetLock(c)
    \/ \E c \in Callers : GetBody(c)
    \/ \E c \in Callers : GetUnlock(c)
    \/ NewTicker
    \/ TickRecv
    \/ ReapLock
    \/ ReapBody
    \/ ReapUnlock
    \/ ClockTick

Spec == Init /\ [][Next]_vars

\* ------------------------------------------------- the command loop's fetch
\* fetchLocations, fetchLocationDetails and catchPokemon of package main:
\* one command at a time, on the goroutine of main, next to the reaper.
\* The cache calls are taken whole, at the moment they hold the mutex.

\* a response body that json.Unmarshal rejects (e.g. the text of a 404)
BadBody == 1

\* err == nil of json.Unmarshal(data, &result)
Unmarshals(b) == b # BadBody

\* the history of Adds after an Add of (k, v) at the present time
HistAfterAdd(k, v) ==
    [hist EXCEPT ![k] =
        [put |-> TRUE, time |-> now, val |-> v,
         over |-> Has(entries, k) /\ Lookup(entries, k).val # v,
         stale |-> Has(entries, k)
                   /\ Expired(Lookup(entries, k), now, interval)]]

\* a command calls fetchX(cfg, url)
FetchCall(fn, u) ==
    /\ ~panicked
    /\ f.pc = "idle"
    /\ f' = [NoFetch EXCEPT !.pc = "get", !.fn = fn, !.url = u]
    /\ UNCHANGED <<entries, interval, mu, pc, key, val, ret, rpc, now,
                   nextTick, tickPending, panicked, hist, abs, expect,
                   heap, al>>

\* if data, ok := cfg.Cache.Get(url); ok { ... }
FetchGet ==
    /\ ~panicked
    /\ f.pc = "get"
    /\ MuCanLock(mu)
    /\ LET r == GetResult(entries, f.url) IN
       f' = IF r.ok
            THEN [f EXCEPT !.pc = "use", !.data = r.val, !.hit = TRUE]
            ELSE [f EXCEPT !.pc = "http"]
    /\ entries' = GetEntries(entries, f.url, now)
    /\ UNCHANGED <<interval, mu, pc, key, val, ret, rpc, now, nextTick,
                   tickPending, panicked, hist, abs, expect, heap, al>>

\* response, err := http.Get(url); if err != nil { return err }
FetchHttp(ok) ==
    /\ ~panicked
    /\ f.pc = "http"
    /\ f' = IF ok
            THEN [f EXCEPT !.pc = "read", !.fetched = TRUE]
            ELSE [f EXCEPT !.pc = "done", !.fetched = TRUE, !.err = "net"]
    /\ UNCHANGED <<entries, interval, mu, pc, key, val, ret, rpc, now,
                   nextTick, tickPending, panicked, hist, abs, expect,
                   heap, al>>

\* body, err := ioutil.ReadAll(response.Body); if err != nil { return err }
FetchRead(ok, b) ==
    /\ ~panicked
    /\ f.pc = "read"
    /\ f' = IF ok
            THEN [f EXCEPT !.pc = "add", !.data = b]
            ELSE [f EXCEPT !.pc = "done", !.err = "read"]
    /\ UNCHANGED <<entries, interval, mu, pc, key, val, ret, rpc, now,
                   nextTick, tickPending, panicked, hist, abs, expect,
                   heap, al>>

\* cfg.Cache.Add(url, body)
FetchAdd ==
    /\ ~panicked
    /\ f.pc = "add"
    /\ MuCanLock(mu)
    /\ entries' = MapAssign(entries, f.url, now, f.data)
    /\ hist' = HistAfterAdd(f.url, f.data)
    /\ abs' = [abs EXCEPT ![f.url] = f.data]
    /\ f' = [f EXCEPT !.pc = "use", !.added = TRUE]
    /\ UNCHANGED <<interval, mu, pc, key, val, ret, rpc, now, nextTick,
                   tickPending, panicked, expect, heap, al>>

\* return displayLocations / displayPokemon / attemptCatch: the bytes are
\* decoded, and the decoder's error is the command's error
FetchUse ==
    /\ ~panicked
    /\ f.pc = "use"
    /\ f' = [f EXCEPT !.pc = "done",
                      !.err = IF Unmarshals(f.data) THEN "none"
                              ELSE "decode"]
    /\ UNCHANGED <<entries, interval, mu, pc, key, val, ret, rpc, now,
                   nextTick, tickPending, panicked, hist, abs, expect,
                   heap, al>>

\* back in the command loop
FetchReturn ==
    /\ ~panicked
    /\ f.pc = "done"
    /\ f' = NoFetch
    /\ UNCHANGED <<entries, interval, mu, pc, key, val, ret, rpc, now,
                   nextTick, tickPending, panicked, hist, abs, expect,
                   heap, al>>

NextFetch ==
    \/ \E fn \in FetchFns, u \in Keys : FetchCall(fn, u)
    \/ FetchGet
    \/ \E ok \in BOOLEAN : FetchHttp(ok)
    \/ \E ok \in BOOLEAN, b \in Payloads : FetchRead(ok, b)
    \/ FetchAdd
    \/ FetchUse
    \/ FetchReturn
    \/ NewTicker
    \/ TickRecv
    \/ ReapLock
    \/ ReapBody
    \/ ReapUnlock
    \/ ClockTick

SpecFetch == Init /\ [][NextFetch]_vars

\* ------------------------------------------- a caller that keeps its slices
\* A []byte is a reference to a backing array: val of an entry names the
\* array (a member of Payloads) and heap gives the array's present content.
\* Add stores the slice it is given and Get returns the stored slice, so
\* the caller's slice, the entry's val and Get's result share one array.
\* The cache calls are taken whole, at the moment they hold the mutex.

\* c.Add(k, b): the entry's val is the slice b itself
AliasAdd(k, b) ==
    /\ ~panicked
    /\ MuCanLock(mu)
    /\ entries' = MapAssign(entries, k, now, b)
    /\ hist' = HistAfterAdd(k, b)
    /\ abs' = [abs EXCEPT ![k] = b]
    /\ al' = [NoAlias EXCEPT !.snap = [al.snap EXCEPT ![k] = heap[b]]]
    /\ UNCHANGED <<interval, mu, pc, key, val, ret, rpc, now, nextTick,
                   tickPending, panicked, expect, f, heap>>

\* b[i] = x: the caller writes into a slice it passed to Add or got from Get
AliasWrite(b, v) ==
    /\ ~panicked
    /\ \E e \in entries : e.val = b
    /\ heap[b] # v
    /\ heap' = [heap EXCEPT ![b] = v]
    /\ al' = [NoAlias EXCEPT !.snap = al.snap]
    /\ UNCHANGED <<entries, interval, mu, pc, key, val, ret, rpc, now,
                   nextTick, tickPending, panicked, hist, abs, expect, f>>

\* data, ok := c.Get(k): the bytes the caller reads through the result
AliasGet(k) ==
    /\ ~panicked
    /\ MuCanLock(mu)
    /\ LET r == GetResult(entries, k) IN
       al' = [al EXCEPT !.key = k, !.ret = r,
                        !.got = IF r.ok THEN heap[r.val] ELSE Nil,
                        !.want = IF r.ok THEN al.snap[k] ELSE Nil]
    /\ entries' = GetEntries(entries, k, now)
    /\ UNCHANGED <<interval, mu, pc, key, val, ret, rpc, now, nextTick,
                   tickPending, panicked, hist, abs, expect, f, heap>>

NextAlias ==
    \/ \E k \in Keys, b \in Payloads : AliasAdd(k, b)
    \/ \E b \in Payloads, v \in Payloads : AliasWrite(b, v)
    \/ \E k \in Keys : AliasGet(k)
    \/ NewTicker
    \/ TickRecv
    \/ ReapLock
    \/ ReapBody
    \/ ReapUnlock
    \/ ClockTick

SpecAlias == Init /\ [][NextAlias]_vars

\* Scheduling: the Go scheduler runs every runnable goroutine (weak
\* fairness of the steps that need no lock), sync.Mutex in starvation mode
\* hands the mutex to a waiter that has waited long enough (strong fairness
\* of the Lock steps), and time passes.  A caller is never obliged to call.
Fairness ==
    /\ \A c \in Callers :
           /\ SF_vars(AddLock(c)) /\ SF_vars(GetLock(c))
           /\ WF_vars(AddBody(c)) /\ WF_vars(AddUnlock(c))
           /\ WF_vars(GetBody(c)) /\ WF_vars(GetUnlock(c))
    /\ WF_vars(NewTicker) /\ WF_vars(TickRecv) /\ SF_vars(ReapLock)
    /\ WF_vars(ReapBody) /\ WF_vars(ReapUnlock)
    /\ WF_vars(ClockTick)

SpecLive == Spec /\ Fairness

\* ================================================================ claims
Hit(v) == [val |-> v, ok |-> TRUE]

\* a caller's Get has evaluated its return values and still holds the lock
GetDone(c) == pc[c] = "get_unlock"

\* goroutines between Lock and Unlock
InCS(c) == pc[c] \in {"add_body", "add_unlock", "get_body", "get_unlock"}
ReaperInCS == rpc \in {"reap_body", "reap_unlock"}

\* payload of key k in map m, Nil when absent
PayloadOf(m, k) == IF Has(m, k) THEN Lookup(m, k).val ELSE Nil

\* age of the last completed Add on k
Age(k) == now - hist[k].time

\* C1 (write then read): a Get(k) issued after a completed Add(k, v), with
\* no later Add on k and no more than interval elapsed since it, returns
\* (v, true), whatever the reaper and the other callers did in between.
C1_WriteThenRead ==
    \A c \in Callers :
        (GetDone(c) /\ hist[key[c]].put /\ Age(key[c]) <= interval)
            => ret[c] = Hit(hist[key[c]].val)

\* a hit on an entry whose age has reached interval, after the reaper ran
C1_Witness ==
    \E c \in Callers :
        /\ GetDone(c) /\ hist[key[c]].put
        /\ interval > 0 /\ Age(key[c]) = interval
        /\ rpc = "wait" /\ ~tickPending /\ nextTick = now + interval
        /\ ret[c] = Hit(hist[key[c]].val)

\* C2 (overwrite): the map holds at most one entry per key, that entry
\* carries the payload of the latest Add on the key, and every Get that
\* hits returns that payload, never an earlier one.
C2_Overwrite ==
    /\ \A e1, e2 \in entries : e1.key = e2.key => e1 = e2
    /\ \A e \in entries : hist[e.key].put /\ e.val = hist[e.key].val
    /\ \A c \in Callers :
           (GetDone(c) /\ ret[c].ok) => ret[c].val = hist[key[c]].val

\* a hit on a key whose latest Add replaced a different payload
C2_Witness ==
    \E c \in Callers :
        GetDone(c) /\ ret[c].ok /\ hist[key[c]].over

C5_LockOrder ==
    /\ \A c \in Callers :
           GetDone(c) =>
               ret[c] = (IF expect[c] = Nil THEN NoRet ELSE Hit(expect[c]))
    /\ ~mu => \A k \in Keys : abs[k] = PayloadOf(entries, k)

\* a Get hit while another caller waits to overwrite the same key
C5_Witness ==
    \E c, d \in Callers :
        /\ GetDone(c) /\ ret[c].ok
        /\ pc[d] = "add_lock" /\ key[d] = key[c] /\ val[d] # ret[c].val

C7_NoAgeCheck ==
    \A c \in Callers :
        (GetDone(c) /\ Has(entries, key[c]))
            => ret[c] = Hit(Lookup(entries, key[c]).val)

\* a hit on an entry older than interval, the reaper waiting for the lock
C7_Witness ==
    \E c \in Callers :
        /\ GetDone(c) /\ ret[c].ok /\ Has(entries, key[c])
        /\ now - Lookup(entries, key[c]).createdAt > interval
        /\ rpc = "reap_lock"

\* C8 (miss on empty): until an Add on k has completed, Get(k) returns
\* (nil, false), and the map is empty until the first Add.
C8_MissOnEmpty ==
    /\ \A c \in Callers :
           (GetDone(c) /\ ~hist[key[c]].put) => ret[c] = NoRet
    /\ (\A k \in Keys : ~hist[k].put) => entries = {}

\* a miss on a never-added key while another key is in the map
C8_Witness ==
    \E c \in Callers :
        /\ GetDone(c) /\ ~hist[key[c]].put /\ ret[c] = NoRet
        /\ entries # {}

\* C9 (independent keys): the step of Add that writes the map leaves the
\* entry of every other key, and so the result of Get on it, unchanged.
C9_IndependentKeys ==
    [][\A c \in Callers :
          (pc[c] = "add_body" /\ pc'[c] = "add_unlock") =>
              \A k \in Keys \ {key[c]} :
                  /\ {e \in entries' : e.key = k} = {e \in entries : e.key = k}
                  /\ GetResult(entries', k) = GetResult(entries, k)]_vars

\* an Add has just written its key next to the entry of another key
C9_Witness ==
    \E c \in Callers :
        /\ pc[c] = "add_unlock"
        /\ Has(entries, key[c])
        /\ \E e \in entries : e.key # key[c]

\* the step in which the reaper's removal pass runs
ReapStep == rpc = "reap_body" /\ rpc' = "reap_unlock"

\* the step in which caller c's Add writes the map
AddStep(c) == pc[c] = "add_body" /\ pc'[c] = "add_unlock"

\* a step of caller c's Get: Lock, body or Unlock
GetStep(c) ==
    /\ pc[c] \in {"get_lock", "get_body", "get_unlock"}
    /\ pc'[c] # pc[c]

\* C12 (sweep): a removal pass leaves exactly the entries whose age is at
\* most interval, each with its payload and createdAt unchanged.
C12_SweepExact ==
    [][ReapStep =>
          entries' = {e \in entries : now - e.createdAt <= interval}]_vars

\* a pass has just removed one key (expired in this pass, not before) and
\* kept another
C12_Witness ==
    /\ rpc = "reap_unlock"
    /\ entries # {}
    /\ \E k \in Keys :
           /\ hist[k].put /\ ~Has(entries, k)
           /\ Age(k) > interval /\ Age(k) <= 2 * interval

\* C13 (lifecycle): a key that is in the map leaves it only in a removal
\* pass of the reaper; no step of Add or Get removes a key.
C13_OnlySweepRemoves ==
    [][\A k \in Keys :
          (Has(entries, k) /\ ~Has(entries', k)) => ReapStep]_vars

\* an overwritten key is still in the map, another key has been swept
C13_Witness ==
    \E k, k2 \in Keys :
        /\ hist[k].over /\ Has(entries, k)
        /\ hist[k2].put /\ ~Has(entries, k2)

\* C14 (Add resets the age clock): every entry's createdAt is the time of
\* the latest Add on its key, so an entry re-added at most interval ago is
\* in the map whatever the age of the entry it replaced.
C14_AddResetsAge ==
    /\ \A e \in entries : e.createdAt = hist[e.key].time
    /\ \A k \in Keys :
           (hist[k].put /\ hist[k].stale /\ Age(k) <= interval)
               => Has(entries, k)

\* an entry that replaced an expired one has survived the removal pass that
\* followed
C14_Witness ==
    /\ rpc = "reap_unlock"
    /\ \E e \in entries :
           /\ hist[e.key].stale
           /\ e.createdAt = hist[e.key].time

\* C15 (mutual exclusion): at most one of the callers and the reaper is
\* between Lock and Unlock, and the mutex is locked exactly while one is.
C15_MutualExclusion ==
    /\ \A c, d \in Callers : (InCS(c) /\ InCS(d)) => c = d
    /\ \A c \in Callers : ~(InCS(c) /\ ReaperInCS)
    /\ mu <=> (ReaperInCS \/ \E c \in Callers : InCS(c))

\* one Get is inside its critical section while the other caller's Get and
\* the reaper wait for the mutex
C15_Witness ==
    \E c, d \in Callers :
        /\ pc[c] = "get_body" /\ pc[d] = "get_lock" /\ mu
        /\ rpc = "reap_lock"

\* C19 (Get is read-only): no step of a Get changes the map: no entry is
\* created, removed or given a new createdAt or payload.
C19_GetReadOnly ==
    [][\A c \in Callers : GetStep(c) => entries' = entries]_vars

\* a Get has hit an entry that is older than when it was added
C19_Witness ==
    \E c \in Callers :
        /\ GetDone(c) /\ ret[c].ok
        /\ Has(entries, key[c])
        /\ Lookup(entries, key[c]).createdAt < now
        /\ Lookup(entries, key[c]).createdAt = hist[key[c]].time

\* C16 (calls complete): under fair scheduling every Add and every Get that
\* has been called returns.
C16_CallsComplete ==
    \A c \in Callers : (pc[c] # "idle") ~> (pc[c] = "idle")

\* C18 (ttl fixed, reaper for ever): no step changes interval, the ticker's
\* next tick always moves by exactly interval, and no step ends the
\* reapLoop goroutine, so that it goes on sweeping.
C18_TtlFixedReaperRuns ==
    [][/\ interval' = interval
       /\ (nextTick' # nextTick => nextTick' = nextTick + interval)
       /\ (rpc # "start" => rpc' # "start")
       /\ ~panicked']_vars

\* C11 (caller protocol): a fetch that hits uses the cached bytes and
\* issues no request; a fetch that misses and gets its bytes Adds them
\* before using them; a fetch that ends in an error (network, read or
\* malformed payload) has made no Add.
C11_CallerProtocol ==
    /\ (f.pc \in {"use", "done"} /\ f.hit) => (~f.fetched /\ ~f.added)
    /\ (f.pc \in {"use", "done"} /\ ~f.hit /\ f.err \notin {"net", "read"})
           => (f.fetched /\ f.added)
    /\ (f.pc = "done" /\ f.err # "none") => ~f.added

\* the part of C11 that the code keeps: hit and miss paths, and no Add
\* after a network or read error
C11_Kept ==
    /\ (f.pc \in {"use", "done"} /\ f.hit) => (~f.fetched /\ ~f.added)
    /\ (f.pc \in {"use", "done"} /\ ~f.hit /\ f.err \notin {"net", "read"})
           => (f.fetched /\ f.added)
    /\ (f.pc = "done" /\ f.err \in {"net", "read"}) => ~f.added

\* C17 (payload owned by the entry): the bytes a Get hit returns are the
\* bytes the slice held when it was passed to the latest Add on the key,
\* whatever the caller wrote into its slices since.
C17_PayloadOwned == al.ret.ok => al.got = al.want

\* C10 (construction never fails): after NewCache(interval), for every
\* interval, neither the caller nor the reaper goroutine panics.
C10_NeverPanics == ~panicked
====
